---- MODULE Spec2Model ----
(***************************************************************************)
(* The live state synchronization client of                                *)
(* src/components/MindVectorPanel/MindVectorGraph.tsx: one MindVectorGraph *)
(* instance, its push channel (WebSocket), its polling channel (fetch on   *)
(* an interval), its status, current vector, history and update callback.  *)
(*                                                                         *)
(* Every handler of the component runs to completion on the event loop, so *)
(* each handler is one action.  The environment (server, network, timers)  *)
(* chooses which event happens next.                                       *)
(***************************************************************************)
EXTENDS Integers, Sequences, FiniteSets, TLC

\* ------------------------------------------------------------------ bounds
MaxStarts == 2      \* runs of the mount effect (start calls)
MaxSockets == 2     \* WebSocket objects ever constructed
MaxRequests == 2    \* fetch requests in flight at once
MaxMessages == 1    \* update payloads the backend ever delivers
MaxSent == 2        \* frames the client sends on one connection
MaxAppends == 52    \* update payloads delivered in the history specification

\* ------------------------------------------------------- program constants
HistoryCapacity == 50   \* slice(0, 50)

\* --------------------------------------------------------- status messages
StInitializing == "Initializing"
StNoWebSocket == "No WebSocket configured or wallet unspecified - using HTTP fallback."
StConnecting == "Connecting to live updates"
StConnected == "Connected. Subscribing to mind vector updates"
StLive == "Live"
StWsClosed == "WebSocket closed. Falling back to HTTP."
StWsError == "WebSocket error. Using HTTP fallback."
StWsInitError == "WebSocket init error. Using HTTP fallback."
StNoHttp == "No HTTP endpoint configured."
StFetching == "Fetching mind vector via HTTP"
StHttpFailed == "HTTP fetch failed"
StHttpOk == "HTTP OK"
StHttpError == "HTTP error"
StNoSource == "No data source configured (websocketUrl or fetchApiUrl required)."

\* ------------------------------------------------------------------- props
\* websocketUrl: absent, a URL the WebSocket constructor accepts, or one it
\* rejects by throwing.  fetchApiUrl: absent or present.  walletAddress: absent
\* ("") or a subject.
WebsocketUrls == {"none", "ok", "bad"}
FetchApiUrls == {"none", "ok"}
Wallets == {"", "w1", "w2"}
P(url, api, wallet) == [websocketUrl |-> url, fetchApiUrl |-> api, walletAddress |-> wallet]
\* The props explored: one for each way the effect tells props apart (both
\* endpoints, a websocketUrl the constructor rejects, fetchApiUrl alone, no
\* endpoint, no wallet).
Props == {P("ok", "ok", "w1"), P("bad", "ok", "w1"), P("none", "ok", "w1"),
          P("none", "none", "w1"), P("ok", "ok", "")}
\* The props of the explorations of one channel, and of the history buffer.
PropsPush == {P("ok", "none", "w1"), P("ok", "ok", "w1")}
PropsHistory == {P("ok", "none", "w1"), P("none", "ok", "w1")}
PropsSubjects == {P("ok", "none", "w1"), P("ok", "none", "w2")}
PropsPoll == {P("none", "ok", "w1"), P("none", "ok", "w2")}

NULL == 0
\* What the record-valued state holds before it holds a record: the props before
\* the first run of the effect, the null current vector, no call, and the
\* closure of a socket nothing references any more.
NoProps == [websocketUrl |-> "none", fetchApiUrl |-> "none", walletAddress |-> ""]
NoVector == [id |-> 0, wallet |-> ""]
NoCall == [stale |-> FALSE, src |-> "none", dims |-> "nocall", late |-> FALSE]
NoClosure == [websocketUrl |-> "none", walletAddress |-> "", stale |-> TRUE]

\* ------------------------------------------------------------ payload data
\* The JavaScript values a dimension's value can be: a finite number, a
\* non-numeric string, NaN, Infinity (JSON.parse of 1e999) and undefined.
Num(n) == [t |-> "num", n |-> n]
NaN == [t |-> "nan", n |-> 0]
Infinity == [t |-> "inf", n |-> 0]
Undefined == [t |-> "undef", n |-> 0]
NonNumeric == [t |-> "str", n |-> 0]
Values == {Num(1), NonNumeric, Infinity, Undefined}
\* The entries of a dimensions or vector array, by the three properties the
\* code reads of them ("" is a property that is absent).  A raw number has none
\* of the three.
Names == {"", "a", "b"}
Labels == {"", "c"}
Entries == [name : Names, label : Labels, value : Values]
RawNumber == [name |-> "", label |-> "", value |-> Undefined]
MaxDims == 2        \* entries of one dimensions or vector array
Arrays == UNION {[1..n -> Entries] : n \in 0..MaxDims}
\* A payload's data object: which of the two arrays it carries, on which channel.
Payloads == [channel : {"push", "poll"}, shape : {"dimensions", "vector"}, items : Arrays]
NoNorm == [stage |-> "idle", payload |-> [channel |-> "push", shape |-> "dimensions", items |-> <<>>],
           dimensions |-> <<>>, data |-> <<>>]

VARIABLES
    starts,         \* runs of the mount effect so far
    props,          \* the props of the latest run of the mount effect (NoProps before it)
    phase,          \* "init" (constructed), "started", "disposed"
    mountedRef,     \* mountedRef.current
    wsRef,          \* wsRef.current: NULL or the index of a socket
    pollingRef,     \* pollingRef.current: NULL or the index of an interval
    sockets,        \* every WebSocket constructed, with the closure of its listeners
    intervals,      \* every setInterval made, with its closure and whether it is live
    requests,       \* the fetches in flight, oldest first, each with its closure
    statusMessage,  \* statusMessage state
    current,        \* current state: NoVector (null) or a vector
    history,        \* history state, newest first
    onUpdateCalls,  \* the argument lists of the calls made to the onUpdate prop, oldest first
    lastCall,       \* the circumstances of the latest onUpdate call (NoCall before it):
                    \* its closure's mark, its channel, whether its vector has dimensions,
                    \* whether it answers a request that a later request's answer overtook
    nmsg,           \* update payloads the backend has delivered so far
    norm            \* one payload on its way from the wire to the chart: the payload,
                    \* the dimensions of the vector built from it, the chart data

componentVars == <<starts, props, phase, mountedRef, wsRef, pollingRef, sockets, intervals,
                   requests, statusMessage, current, history, onUpdateCalls, lastCall, nmsg>>
vars == <<starts, props, phase, mountedRef, wsRef, pollingRef, sockets, intervals, requests,
          statusMessage, current, history, onUpdateCalls, lastCall, nmsg, norm>>

\* Reconnect timers pending: setTimeout callbacks scheduled by a close listener.
PendingTimers == {i \in DOMAIN sockets : sockets[i].retry = "scheduled"}
InFlight == DOMAIN requests
ActiveIntervals == {k \in DOMAIN intervals : intervals[k].active}
\* Connections that are alive: connecting or open.
LiveSockets == {i \in DOMAIN sockets : sockets[i].state \in {"connecting", "open"}}

InitComponent ==
    /\ starts = 0
    /\ props = NoProps
    /\ phase = "init"
    /\ mountedRef = TRUE
    /\ wsRef = NULL
    /\ pollingRef = NULL
    /\ sockets = <<>>
    /\ intervals = <<>>
    /\ requests = <<>>
    /\ statusMessage = StInitializing
    /\ current = NoVector
    /\ history = <<>>
    /\ onUpdateCalls = <<>>
    /\ lastCall = NoCall
    /\ nmsg = 0

Init == InitComponent /\ norm = NoNorm

\* ------------------------------------------------------------------ limits
\* The bounds an exploration runs under: Lim for the protocol, LimRestart for
\* the runs that need a socket per start and one more, LimPush for the push
\* channel alone, LimHistory for the history buffer (many updates, few
\* connections).
Lim == [starts |-> MaxStarts, sockets |-> MaxSockets, requests |-> MaxRequests,
        messages |-> MaxMessages, sent |-> MaxSent]
LimRestart == [starts |-> MaxStarts, sockets |-> MaxSockets + 1, requests |-> MaxRequests,
               messages |-> MaxMessages, sent |-> MaxSent]
LimPush == [starts |-> MaxStarts, sockets |-> MaxSockets + 1, requests |-> MaxRequests,
            messages |-> MaxMessages, sent |-> MaxSent]
LimHistory == [starts |-> MaxStarts, sockets |-> 1, requests |-> MaxRequests,
               messages |-> MaxAppends, sent |-> 1]

\* ------------------------------------------------------- pure parts of code
Min(a, b) == IF a < b THEN a ELSE b

\* The history append without the slice.
HistoryAppendUnbounded(h, vector) == <<vector>> \o h

\* The history append that puts the vector last.
HistoryAppendLast(h, vector) ==
    SubSeq(h \o <<vector>>, 1, Min(Len(h) + 1, HistoryCapacity))

\* [vector, ...h].slice(0, 50)
HistoryAppend(h, vector) ==
    SubSeq(<<vector>> \o h, 1, Min(Len(h) + 1, HistoryCapacity))

\* Number(v)
Number(v) == IF v.t \in {"num", "inf"} THEN v ELSE NaN
\* v ?? d
Coalesce(v, d) == IF v.t = "undef" THEN d ELSE v
\* v || 0
OrZero(v) == IF v.t \in {"nan", "undef"} \/ (v.t = "num" /\ v.n = 0) THEN Num(0) ELSE v
\* v.name || v.label || "dim"
NameOf(v) == IF v.name # "" THEN v.name ELSE IF v.label # "" THEN v.label ELSE "dim"

\* The dimensions of the vector a channel builds from a payload.  Push (line
\* 101): payload.data.dimensions || [].  Poll (lines 159-163): data.dimensions,
\* or else data.vector mapped entry by entry, or else [].
BuildDimensions(payload) ==
    IF payload.shape = "dimensions" THEN payload.items
    ELSE IF payload.channel = "push" THEN <<>>
         ELSE [k \in DOMAIN payload.items |->
                  [name |-> NameOf(payload.items[k]), label |-> payload.items[k].label,
                   value |-> Number(Coalesce(payload.items[k].value, Num(0)))]]

\* a.name.localeCompare(b.name) over the names that occur, as a rank.
Rank(name) == CASE name = "a" -> 1 [] name = "b" -> 2 [] name = "c" -> 3 [] OTHER -> 4
\* Array.prototype.sort with that comparator: stable, ascending.
InsertByName(d, q) ==
    LET k == Cardinality({j \in DOMAIN q : Rank(q[j].name) <= Rank(d.name)})
    IN SubSeq(q, 1, k) \o <<d>> \o SubSeq(q, k + 1, Len(q))
RECURSIVE SortByName(_)
SortByName(ds) ==
    IF ds = <<>> THEN <<>>
    ELSE InsertByName(ds[Len(ds)], SortByName(SubSeq(ds, 1, Len(ds) - 1)))

\* normalizeToRadarData: it throws when the comparator is called on an entry
\* without a name (undefined.localeCompare), which happens once there are two
\* entries or more.
normalizeToRadarData(ds) ==
    IF Len(ds) >= 2 /\ \E k \in DOMAIN ds : ds[k].name = ""
    THEN [threw |-> TRUE, data |-> <<>>]
    ELSE [threw |-> FALSE,
          data |-> LET sorted == SortByName(ds)
                   IN [k \in DOMAIN sorted |->
                          [subject |-> sorted[k].name,
                           value |-> OrZero(Number(sorted[k].value))]]]

\* The closures of connectWebSocket and of fetchOnce: the props each captures
\* (its useCallback dependencies), and whether the run of the effect that made
\* it has been cleaned up since (stale).  The code keeps no such mark; it is
\* what a liveness token captured at schedule time would say.
ConnectClosure(cfg) ==
    [websocketUrl |-> cfg.websocketUrl, walletAddress |-> cfg.walletAddress, stale |-> FALSE]
FetchClosure(cfg) ==
    [fetchApiUrl |-> cfg.fetchApiUrl, walletAddress |-> cfg.walletAddress, stale |-> FALSE]
Retire(c) == [c EXCEPT !.stale = TRUE]

\* A socket that has closed and whose reconnect timer has run is referenced by
\* nothing any more: only how its timer ended is remembered.
Finished(sock, outcome) ==
    [state |-> "closed", closure |-> NoClosure, bornStale |-> sock.bornStale,
     retry |-> outcome, sent |-> <<>>, pings |-> 0]

\* The frames the client sends: the subscribe message of closure c (line 90)
\* and the pong (line 115).
SubscribeMsg(c) == [type |-> "subscribe", topic |-> "mindVector", wallet |-> c.walletAddress]
PongMsg == [type |-> "pong", topic |-> "", wallet |-> ""]

\* new WebSocket(url) with the listeners of closure c.  pings counts the ping
\* frames the socket has received while open.
NewSocket(c) ==
    [state |-> "connecting", closure |-> c, bornStale |-> c.stale,
     retry |-> "none", sent |-> <<>>, pings |-> 0]

\* connectWebSocket of closure c: the sockets, wsRef and statusMessage it leaves.
connectWebSocket(c, socks, ref) ==
    IF c.websocketUrl = "none" \/ c.walletAddress = ""
    THEN [sockets |-> socks, wsRef |-> ref, statusMessage |-> StNoWebSocket]
    ELSE IF c.websocketUrl = "bad"
         THEN [sockets |-> socks, wsRef |-> ref, statusMessage |-> StWsInitError]
         ELSE [sockets |-> Append(socks, NewSocket(c)), wsRef |-> Len(socks) + 1,
               statusMessage |-> StConnecting]

\* fetchOnce of closure c up to its first await: the requests and
\* statusMessage it leaves.
fetchOnce(c, reqs) ==
    IF c.fetchApiUrl = "none" \/ c.walletAddress = ""
    THEN [requests |-> reqs, statusMessage |-> StNoHttp]
    ELSE [requests |-> Append(reqs, [closure |-> c, overtaken |-> FALSE]),
          statusMessage |-> StFetching]

\* The frames the message listener tells apart.  "mindVectorUpdate": type
\* mindVectorUpdate with a data object that has dimensions.  "emptyUpdate": type
\* mindVectorUpdate with truthy data that has no dimensions ({}, a number, a
\* string): payload.data.dimensions || [] is [].  "ping".  "other": any other
\* JSON value (another type, falsy data, not an object).  "garbage": JSON.parse
\* throws.
Frames == {"mindVectorUpdate", "ping", "other", "garbage"}
EmptyFrames == {"emptyUpdate"}
UpdateFrames == {"mindVectorUpdate", "emptyUpdate"}

\* The settled fetches fetchOnce tells apart.  "rejected": fetch rejects
\* (transport error).  "notOk": a status other than 2xx.  "badBody": resp.json()
\* throws, or the body is null and data.timestamp throws.  "ok": a body with
\* dimensions.  "okEmpty": a body that yields no dimensions ({}, a number).
Responses == {"rejected", "notOk", "badBody", "ok"}
EmptyResponses == {"okEmpty"}
OkResponses == {"ok", "okEmpty"}

\* Whether the vector built from a frame or a body has any dimensions.
DimsOf(input) == IF input \in {"emptyUpdate", "okEmpty"} THEN "none" ELSE "some"

\* The message listener without its mountedRef check.
MessageOutcomeUnchecked(frame, mounted) ==
    IF frame = "garbage" THEN "caught"
    ELSE IF frame \in UpdateFrames THEN "accept"
         ELSE IF frame = "ping" THEN "pong" ELSE "ignore"

\* The message listener without its ping branch.
MessageOutcomeNoPong(frame, mounted) ==
    IF frame = "garbage" THEN "caught"
    ELSE IF frame \in UpdateFrames
         THEN (IF ~mounted THEN "return" ELSE "accept")
         ELSE "ignore"

\* What the message listener does with one frame.
MessageOutcome(frame, mounted) ==
    IF frame = "garbage" THEN "caught"
    ELSE IF frame \in UpdateFrames
         THEN (IF ~mounted THEN "return" ELSE "accept")
         ELSE IF frame = "ping" THEN "pong" ELSE "ignore"

\* What fetchOnce does with one settled fetch.
FetchOutcome(resp, mounted) ==
    IF resp = "rejected" THEN "caught"
    ELSE IF resp = "notOk" THEN "failed"
         ELSE IF resp = "badBody" THEN "caught"
              ELSE IF ~mounted THEN "return" ELSE "accept"

\* The reconnect timer with its mountedRef check inverted.
ReconnectOutcomeInverted(mounted) == IF mounted THEN "skip" ELSE "connect"

\* if (mountedRef.current) connectWebSocket()
ReconnectOutcome(mounted) == IF mounted THEN "connect" ELSE "skip"

\* ws.close(): a connecting or open socket starts closing; otherwise a no-op.
CloseSocket(sock) ==
    IF sock.state \in {"connecting", "open"} THEN [sock EXCEPT !.state = "closing"] ELSE sock

\* The cleanup of the mount effect (dispose): the flag is lowered, the socket in
\* wsRef is closed and the interval in pollingRef is cleared.  The setTimeout of
\* the close listener keeps no handle, so no cleanup can cancel it.  Every
\* closure made so far belongs to a run that is now cleaned up.
CleanupSockets ==
    [i \in DOMAIN sockets |->
        IF sockets[i].closure = NoClosure THEN sockets[i]
        ELSE [(IF i = wsRef THEN CloseSocket(sockets[i]) ELSE sockets[i])
                 EXCEPT !.closure = Retire(@)]]
CleanupIntervals ==
    [k \in DOMAIN intervals |->
        IF k = pollingRef
        THEN [active |-> FALSE,
              closure |-> [fetchApiUrl |-> "none", walletAddress |-> "", stale |-> TRUE]]
        ELSE [intervals[k] EXCEPT !.closure = Retire(@)]]
CleanupRequests ==
    [r \in DOMAIN requests |-> [requests[r] EXCEPT !.closure = Retire(@)]]

\* ----------------------------------------------------------------- actions
\* The mount effect runs with props cfg (start).  React runs the previous
\* run's cleanup first when there is one.
Start(L, cfg) ==
    /\ starts < L.starts
    /\ starts' = starts + 1
    /\ (cfg.websocketUrl = "ok" /\ cfg.walletAddress # "")
          => Len(sockets) + Cardinality(PendingTimers) < L.sockets
    /\ (cfg.websocketUrl = "none" /\ cfg.fetchApiUrl = "ok" /\ cfg.walletAddress # "")
          => Len(requests) < L.requests
    /\ LET socks0 == IF phase = "started" THEN CleanupSockets ELSE sockets
           ivals0 == IF phase = "started" THEN CleanupIntervals ELSE intervals
           reqs0 == IF phase = "started" THEN CleanupRequests ELSE requests
           ws0 == IF phase = "started" THEN NULL ELSE wsRef
           poll0 == IF phase = "started" THEN NULL ELSE pollingRef
       IN /\ props' = cfg
          /\ phase' = "started"
          /\ mountedRef' = TRUE
          /\ IF cfg.websocketUrl # "none" /\ cfg.walletAddress # ""
             THEN LET w == connectWebSocket(ConnectClosure(cfg), socks0, ws0)
                  IN /\ sockets' = w.sockets
                     /\ wsRef' = w.wsRef
                     /\ statusMessage' = w.statusMessage
                     /\ intervals' = ivals0
                     /\ pollingRef' = poll0
                     /\ requests' = reqs0
             ELSE IF cfg.fetchApiUrl # "none" /\ cfg.walletAddress # ""
                  THEN LET f == fetchOnce(FetchClosure(cfg), reqs0)
                       IN /\ requests' = f.requests
                          /\ statusMessage' = f.statusMessage
                          /\ intervals' = Append(ivals0, [active |-> TRUE, closure |-> FetchClosure(cfg)])
                          /\ pollingRef' = Len(ivals0) + 1
                          /\ sockets' = socks0
                          /\ wsRef' = ws0
                  ELSE /\ statusMessage' = StNoSource
                       /\ sockets' = socks0
                       /\ wsRef' = ws0
                       /\ intervals' = ivals0
                       /\ pollingRef' = poll0
                       /\ requests' = reqs0
    /\ UNCHANGED <<current, history, onUpdateCalls, lastCall, nmsg, norm>>

\* The cleanup of the mount effect runs on its own (dispose).
Dispose ==
    /\ phase = "started"
    /\ phase' = "disposed"
    /\ mountedRef' = FALSE
    /\ sockets' = CleanupSockets
    /\ wsRef' = NULL
    /\ intervals' = CleanupIntervals
    /\ pollingRef' = NULL
    /\ requests' = CleanupRequests
    /\ UNCHANGED <<starts, props, statusMessage, current, history, onUpdateCalls, lastCall, nmsg, norm>>

\* The open listener of socket i: status, then the subscribe frame.
WsOpen(i) ==
    /\ sockets[i].state = "connecting"
    /\ statusMessage' = StConnected
    /\ sockets' = [sockets EXCEPT ![i].state = "open", ![i].sent = Append(@, SubscribeMsg(sockets[i].closure))]
    /\ UNCHANGED <<starts, props, phase, mountedRef, wsRef, pollingRef, intervals, requests,
                   current, history, onUpdateCalls, lastCall, nmsg, norm>>

\* The update branch calling onUpdate twice.
AcceptNotifiesTwice(vector, c, src, dims, late, status) ==
    /\ current' = vector
    /\ history' = HistoryAppend(history, vector)
    /\ onUpdateCalls' = Append(Append(onUpdateCalls, <<vector>>), <<vector>>)
    /\ lastCall' = [stale |-> c.stale, src |-> src, dims |-> dims, late |-> late]
    /\ statusMessage' = status

\* The update branch without its setCurrent.
AcceptKeepsCurrent(vector, c, src, dims, late, status) ==
    /\ current' = current
    /\ history' = HistoryAppend(history, vector)
    /\ onUpdateCalls' = Append(onUpdateCalls, <<vector>>)
    /\ lastCall' = [stale |-> c.stale, src |-> src, dims |-> dims, late |-> late]
    /\ statusMessage' = status

\* The update branch without its closing setStatusMessage.
AcceptNoStatus(vector, c, src, dims, late, status) ==
    /\ current' = vector
    /\ history' = HistoryAppend(history, vector)
    /\ onUpdateCalls' = Append(onUpdateCalls, <<vector>>)
    /\ lastCall' = [stale |-> c.stale, src |-> src, dims |-> dims, late |-> late]
    /\ statusMessage' = statusMessage

\* The update branch of both channels once a vector is accepted: setCurrent,
\* setHistory, onUpdate(vector), then the status.  The call is logged with the
\* arguments the code passes.
Accept(vector, c, src, dims, late, status) ==
    /\ current' = vector
    /\ history' = HistoryAppend(history, vector)
    /\ onUpdateCalls' = Append(onUpdateCalls, <<vector>>)
    /\ lastCall' = [stale |-> c.stale, src |-> src, dims |-> dims, late |-> late]
    /\ statusMessage' = status

\* The message listener of socket i receives one frame.  A socket that is
\* closing still delivers the frames that were on their way.
WsMessage(L, i, frame) ==
    /\ sockets[i].state \in {"open", "closing"}
    /\ frame \in UpdateFrames => nmsg < L.messages
    /\ frame = "ping" => Len(sockets[i].sent) < L.sent
    /\ LET out == MessageOutcome(frame, mountedRef)
           vector == [id |-> nmsg + 1, wallet |-> sockets[i].closure.walletAddress]
       IN /\ IF out = "accept"
             THEN Accept(vector, sockets[i].closure, "push", DimsOf(frame), FALSE, StLive)
             ELSE UNCHANGED <<current, history, onUpdateCalls, lastCall, statusMessage>>
          /\ LET got == IF frame = "ping" /\ sockets[i].state = "open"
                         THEN [sockets EXCEPT ![i].pings = @ + 1]
                         ELSE sockets
             IN sockets' = IF out = "pong" /\ sockets[i].state = "open"
                           THEN [got EXCEPT ![i].sent = Append(@, PongMsg)]
                           ELSE got
          /\ nmsg' = IF frame \in UpdateFrames THEN nmsg + 1 ELSE nmsg
    /\ UNCHANGED <<starts, props, phase, mountedRef, wsRef, pollingRef, intervals, requests, norm>>

\* An error listener that schedules a reconnect of its own.
WsErrorSchedules(i) ==
    /\ sockets[i].state \in {"connecting", "open", "closing"}
    /\ statusMessage' = StWsError
    /\ sockets' = [sockets EXCEPT ![i].state = "failed", ![i].retry = "scheduled"]
    /\ UNCHANGED <<starts, props, phase, mountedRef, wsRef, pollingRef, intervals, requests,
                   current, history, onUpdateCalls, lastCall, nmsg, norm>>

\* The error listener of socket i: status, then ws.close().  The connection has
\* failed: no frame arrives on it any more.
WsError(i) ==
    /\ sockets[i].state \in {"connecting", "open", "closing"}
    /\ statusMessage' = StWsError
    /\ sockets' = [sockets EXCEPT ![i].state = "failed"]
    /\ UNCHANGED <<starts, props, phase, mountedRef, wsRef, pollingRef, intervals, requests,
                   current, history, onUpdateCalls, lastCall, nmsg, norm>>

\* The close listener of socket i: status, then setTimeout(reconnect, 5000).
WsClose(L, i) ==
    /\ i \in DOMAIN sockets
    /\ sockets[i].state \in {"connecting", "open", "closing", "failed"}
    /\ Len(sockets) + Cardinality(PendingTimers) < L.sockets
    /\ statusMessage' = StWsClosed
    /\ sockets' = [sockets EXCEPT ![i].state = "closed", ![i].retry = "scheduled"]
    /\ UNCHANGED <<starts, props, phase, mountedRef, wsRef, pollingRef, intervals, requests,
                   current, history, onUpdateCalls, lastCall, nmsg, norm>>

\* The reconnect timer that the close listener of socket i scheduled fires.
ReconnectTimer(i) ==
    /\ i \in DOMAIN sockets
    /\ sockets[i].retry = "scheduled"
    /\ LET out == ReconnectOutcome(mountedRef)
           marked == [sockets EXCEPT ![i] = Finished(@, IF out = "connect" THEN "attempted" ELSE "skipped")]
           w == connectWebSocket(sockets[i].closure, marked, wsRef)
       IN IF out = "connect"
          THEN /\ sockets' = w.sockets
               /\ wsRef' = w.wsRef
               /\ statusMessage' = w.statusMessage
          ELSE /\ sockets' = marked
               /\ UNCHANGED <<wsRef, statusMessage>>
    /\ UNCHANGED <<starts, props, phase, mountedRef, pollingRef, intervals, requests,
                   current, history, onUpdateCalls, lastCall, nmsg, norm>>

\* An interval that a failed poll stops.
PollTickUnlessFailed(L, k) ==
    /\ k \in DOMAIN intervals
    /\ intervals[k].active
    /\ statusMessage \notin {StHttpFailed, StHttpError}
    /\ Len(requests) < L.requests
    /\ LET f == fetchOnce(intervals[k].closure, requests)
       IN /\ requests' = f.requests
          /\ statusMessage' = f.statusMessage
    /\ UNCHANGED <<starts, props, phase, mountedRef, wsRef, pollingRef, sockets, intervals,
                   current, history, onUpdateCalls, lastCall, nmsg, norm>>

\* The interval k fires: fetchOnce of its closure, whatever is still in flight.
PollTick(L, k) ==
    /\ k \in DOMAIN intervals
    /\ intervals[k].active
    /\ Len(requests) < L.requests
    /\ LET f == fetchOnce(intervals[k].closure, requests)
       IN /\ requests' = f.requests
          /\ statusMessage' = f.statusMessage
    /\ UNCHANGED <<starts, props, phase, mountedRef, wsRef, pollingRef, sockets, intervals,
                   current, history, onUpdateCalls, lastCall, nmsg, norm>>

\* The requests once the answer to the r-th is accepted: the requests issued
\* before it that are still in flight have been overtaken.
Overtake(q, r) ==
    [k \in DOMAIN q |-> IF k < r THEN [q[k] EXCEPT !.overtaken = TRUE] ELSE q[k]]

\* The sequence q without its r-th element.
Remove(q, r) == SubSeq(q, 1, r - 1) \o SubSeq(q, r + 1, Len(q))

\* The fetch r settles with resp and fetchOnce resumes.
PollResponse(L, r, resp) ==
    /\ r \in DOMAIN requests
    /\ resp \in OkResponses => nmsg < L.messages
    /\ LET c == requests[r].closure
           out == FetchOutcome(resp, mountedRef)
           vector == [id |-> nmsg + 1, wallet |-> c.walletAddress]
       IN /\ IF out = "accept"
             THEN Accept(vector, c, "poll", DimsOf(resp), requests[r].overtaken, StHttpOk)
             ELSE /\ UNCHANGED <<current, history, onUpdateCalls, lastCall>>
                  /\ statusMessage' = IF out = "failed" THEN StHttpFailed
                                      ELSE IF out = "caught" THEN StHttpError
                                      ELSE statusMessage
          /\ requests' = Remove(IF out = "accept" THEN Overtake(requests, r) ELSE requests, r)
          /\ nmsg' = IF resp \in OkResponses THEN nmsg + 1 ELSE nmsg
    /\ UNCHANGED <<starts, props, phase, mountedRef, wsRef, pollingRef, sockets, intervals, norm>>

\* A channel builds the vector of the payload it received.
BuildVector ==
    /\ norm.stage = "received"
    /\ norm' = [norm EXCEPT !.stage = "built", !.dimensions = BuildDimensions(norm.payload)]
    /\ UNCHANGED componentVars

\* The vector built is turned into the chart's data.
NormalizeVector ==
    /\ norm.stage = "built"
    /\ LET out == normalizeToRadarData(norm.dimensions)
       IN norm' = [norm EXCEPT !.stage = IF out.threw THEN "threw" ELSE "normalized",
                               !.data = out.data]
    /\ UNCHANGED componentVars

\* One step of the component under limits L with the props of PS.
Step(L, PS) ==
    \/ \E cfg \in PS : Start(L, cfg)
    \/ Dispose
    \/ \E i \in DOMAIN sockets : WsOpen(i)
    \/ \E i \in DOMAIN sockets, frame \in Frames : WsMessage(L, i, frame)
    \/ \E i \in DOMAIN sockets : WsError(i)
    \/ \E i \in DOMAIN sockets : WsClose(L, i)
    \/ \E i \in DOMAIN sockets : ReconnectTimer(i)
    \/ \E k \in DOMAIN intervals : PollTick(L, k)
    \/ \E r \in DOMAIN requests, resp \in Responses : PollResponse(L, r, resp)

Next == Step(Lim, Props)
Spec == Init /\ [][Next]_vars

NextRestart == Step(LimRestart, Props)
SpecRestart == Init /\ [][NextRestart]_vars

\* The push channel alone.  A reconnect timer that is pending fires: setTimeout
\* runs its callback once the delay has passed.
NextPush ==
    \/ \E cfg \in PropsPush : Start(LimPush, cfg)
    \/ Dispose
    \/ \E i \in DOMAIN sockets : WsOpen(i)
    \/ \E i \in DOMAIN sockets, frame \in Frames : WsMessage(LimPush, i, frame)
    \/ \E i \in DOMAIN sockets : WsError(i)
    \/ \E i \in DOMAIN sockets : WsClose(LimPush, i)
    \/ \E i \in DOMAIN sockets : ReconnectTimer(i)
FairPush ==
    /\ Init /\ [][NextPush]_vars
    /\ \A i \in 1..LimPush.sockets : WF_vars(ReconnectTimer(i))

\* The push channel where, besides, the close event of a connection that has
\* failed or is being closed is delivered: the browser fires close after an
\* error and after close().
FairPushClose ==
    /\ FairPush
    /\ \A i \in 1..LimPush.sockets : WF_vars(WsClose(LimPush, i))

\* The push channel of a component whose subject changes.
NextSubjects ==
    \/ \E cfg \in PropsSubjects : Start(LimPush, cfg)
    \/ Dispose
    \/ \E i \in DOMAIN sockets : WsOpen(i)
    \/ \E i \in DOMAIN sockets, frame \in Frames : WsMessage(LimPush, i, frame)
    \/ \E i \in DOMAIN sockets : WsError(i)
    \/ \E i \in DOMAIN sockets : WsClose(LimPush, i)
    \/ \E i \in DOMAIN sockets : ReconnectTimer(i)
SpecSubjects == Init /\ [][NextSubjects]_vars

\* Both channels with the payloads that yield no dimensions among those
\* delivered.
NextPayloads ==
    \/ \E cfg \in PropsHistory : Start(Lim, cfg)
    \/ \E i \in DOMAIN sockets : WsOpen(i)
    \/ \E i \in DOMAIN sockets, frame \in Frames \cup EmptyFrames : WsMessage(Lim, i, frame)
    \/ \E k \in DOMAIN intervals : PollTick(Lim, k)
    \/ \E r \in DOMAIN requests, resp \in Responses \cup EmptyResponses :
          PollResponse(Lim, r, resp)
SpecPayloads == Init /\ [][NextPayloads]_vars

\* The updates of both channels, as many as overflow the history.
NextHistory ==
    \/ \E cfg \in PropsHistory : Start(LimHistory, cfg)
    \/ \E i \in DOMAIN sockets : WsOpen(i)
    \/ \E i \in DOMAIN sockets, frame \in Frames : WsMessage(LimHistory, i, frame)
    \/ \E k \in DOMAIN intervals : PollTick(LimHistory, k)
    \/ \E r \in DOMAIN requests, resp \in Responses : PollResponse(LimHistory, r, resp)
SpecHistory == Init /\ [][NextHistory]_vars

\* The polling channel alone.  An active interval fires: setInterval runs its
\* callback every pollingIntervalMs until it is cleared.
NextPoll ==
    \/ \E cfg \in PropsPoll : Start(Lim, cfg)
    \/ Dispose
    \/ \E k \in DOMAIN intervals : PollTick(Lim, k)
    \/ \E r \in DOMAIN requests, resp \in Responses : PollResponse(Lim, r, resp)
SpecPoll == Init /\ [][NextPoll]_vars
FairPoll ==
    /\ SpecPoll
    /\ \A k \in 1..Lim.starts : WF_vars(PollTick(Lim, k))

\* The way of one payload through the component, for every payload.
InitNormalizer ==
    /\ InitComponent
    /\ norm \in {[NoNorm EXCEPT !.stage = "received", !.payload = p] : p \in Payloads}
NextNormalizer == BuildVector \/ NormalizeVector
SpecNormalizer == InitNormalizer /\ [][NextNormalizer]_vars

\* ------------------------------------------------------------------ claims

\* A step in which the onUpdate prop is called.
Notified == Len(onUpdateCalls') = Len(onUpdateCalls) + 1

\* C1: after dispose(), until the next start, no handler calls the subscriber:
\* a late push frame, a poll response that was in flight, an interval tick and
\* a reconnect timer all leave the calls (and the current vector and the
\* history) as they were.
C1_NoCallbackAfterDispose ==
    [][phase = "disposed" /\ phase' = "disposed"
          => /\ onUpdateCalls' = onUpdateCalls
             /\ current' = current
             /\ history' = history]_vars

\* C1 witness: the component is disposed, an update that reached it was dropped
\* and a reconnect timer has fired without reconnecting.
C1_Witness ==
    /\ phase = "disposed"
    /\ nmsg > Len(onUpdateCalls)
    /\ \E i \in DOMAIN sockets : sockets[i].retry = "skipped"

\* C2: a timer or a response scheduled before a dispose() never takes effect,
\* even after a later start: no connection is opened by a reconnect timer of a
\* cleaned-up run, and no update is accepted from a cleaned-up closure.
C2_StaleNeverTakesEffect ==
    /\ \A i \in DOMAIN sockets : ~sockets[i].bornStale
    /\ ~lastCall.stale

\* C3: at most one push connection is alive (connecting or open) and at most
\* one polling interval is active.
C3_OneChannelOfEachKind ==
    /\ Cardinality(LiveSockets) <= 1
    /\ Cardinality(ActiveIntervals) <= 1

\* C4: when the current push connection closes or errors while fetchApiUrl is
\* configured, the polling channel is started as a fallback (an interval is
\* active or a request is in flight once the listener has run).
C4_FallbackToPolling ==
    [][\A i \in DOMAIN sockets :
          ( /\ phase = "started" /\ i = wsRef
            /\ props.fetchApiUrl = "ok"
            /\ sockets[i].state \in {"connecting", "open"}
            /\ sockets'[i].state \in {"failed", "closed"} )
          => /\ statusMessage' \in {StWsClosed, StWsError}
             /\ (ActiveIntervals' # {} \/ InFlight' # {})]_vars

\* C5: when polling is running and the push channel delivers an update that is
\* accepted, polling is stopped and the status is Live.
C5_PushUpdateStopsPolling ==
    [][(Notified /\ lastCall'.src = "push" /\ ActiveIntervals # {})
          => (ActiveIntervals' = {} /\ statusMessage' = StLive)]_vars

\* C6: at most one poll request of the polling loop is in flight: the interval
\* issues a request only after the previous one has settled.
C6_OnePollInFlight ==
    Cardinality({r \in InFlight : ~requests[r].closure.stale}) <= 1

\* How the reconnect of socket i stands ("none" while there is no such socket).
RetryOf(i) == IF i \in DOMAIN sockets THEN sockets[i].retry ELSE "none"

\* C7: every close of a push connection schedules one reconnect; a scheduled
\* reconnect always eventually fires; when it fires it makes a new connection
\* attempt unless the component is disposed, however many attempts have failed
\* before; and while the component is disposed no connection attempt is made.
C7_ReconnectUnlessDisposed ==
    /\ \A i \in 1..LimPush.sockets :
          (RetryOf(i) = "scheduled") ~> (RetryOf(i) \in {"attempted", "skipped"})
    /\ [][\A i \in DOMAIN sockets :
             /\ (sockets[i].state # "closed" /\ sockets'[i].state = "closed")
                   => sockets'[i].retry = "scheduled"
             /\ (sockets[i].retry = "scheduled" /\ sockets'[i].retry = "attempted")
                   => /\ Len(sockets') = Len(sockets) + 1
                      /\ sockets'[Len(sockets')].state = "connecting"
             /\ (sockets[i].retry = "scheduled" /\ sockets'[i].retry = "skipped")
                   => ~mountedRef]_vars
    /\ [][(phase = "disposed" /\ phase' = "disposed")
             => Len(sockets') = Len(sockets)]_vars

\* C7 witness: two connections in a row have closed and each was followed by a
\* new attempt; the third is connecting.
C7_Witness ==
    /\ Len(sockets) = 3
    /\ sockets[1].retry = "attempted" /\ sockets[2].retry = "attempted"
    /\ sockets[3].state = "connecting"
    /\ starts = 1

\* C8: the history never holds more than 50 vectors; it holds the latest
\* accepted vectors of both channels, newest first, so that at capacity each
\* accepted update evicts exactly the oldest entry.
C8_HistoryBounded ==
    /\ Len(history) <= 50
    /\ Len(history) = Min(Len(onUpdateCalls), 50)
    /\ \A k \in 1..Len(history) :
          history[k] = onUpdateCalls[Len(onUpdateCalls) - k + 1][1]

\* C8 witness: 51 updates have been accepted, the latest from the polling
\* channel while a subscribed push connection is still delivering; the first
\* one is gone and the second one is the oldest entry.
C8_Witness ==
    /\ Len(onUpdateCalls) = 51
    /\ Len(history) = 50
    /\ history[50] = onUpdateCalls[2][1]
    /\ \A k \in 1..50 : history[k] # onUpdateCalls[1][1]
    /\ lastCall.src = "poll"
    /\ \E i \in DOMAIN sockets :
          sockets[i].state = "closing" /\ sockets[i].sent = <<SubscribeMsg(sockets[i].closure)>>

\* A step that is a run of the mount effect (start), and what the run itself
\* adds: a socket it constructs, a request it issues and the interval it sets.
Started == starts' = starts + 1
OpensSocket ==
    /\ Len(sockets') = Len(sockets) + 1
    /\ wsRef' = Len(sockets')
    /\ sockets'[wsRef'].state = "connecting"
OpensNoSocket == Len(sockets') = Len(sockets)
IssuesRequest ==
    /\ Len(requests') = Len(requests) + 1
    /\ ~requests'[Len(requests')].closure.stale
    /\ Len(intervals') = Len(intervals) + 1
    /\ pollingRef' = Len(intervals')
    /\ intervals'[pollingRef'].active
IssuesNoRequest == Len(requests') = Len(requests) /\ Len(intervals') = Len(intervals)

\* C9: start selects exactly one channel by configuration: with
\* websocketUrl and a wallet it opens a socket and shows the connecting status,
\* issuing no request; otherwise with fetchApiUrl and a wallet it issues a
\* request, starts the interval and shows the polling status; otherwise it
\* shows the no-data-source status and opens and issues nothing.
C9_StartSelectsChannel ==
    [][Started =>
          IF props'.websocketUrl # "none" /\ props'.walletAddress # ""
          THEN OpensSocket /\ IssuesNoRequest /\ statusMessage' = StConnecting
          ELSE IF props'.fetchApiUrl # "none" /\ props'.walletAddress # ""
               THEN IssuesRequest /\ OpensNoSocket /\ statusMessage' = StFetching
               ELSE OpensNoSocket /\ IssuesNoRequest /\ statusMessage' = StNoSource]_vars

C11_MalformedPayloadDropped == lastCall.dims # "none"

\* The pongs socket i has sent.
Pongs(i) == Cardinality({k \in DOMAIN sockets[i].sent : sockets[i].sent[k] = PongMsg})

\* C12: when an open push connection delivers a ping, a pong is sent on that
\* connection, the connection stays open, and the subscriber calls, the
\* history, the current vector and the status are unchanged.  So a connection
\* has sent as many pongs as it has received pings.
C12_PingAnsweredWithPong ==
    /\ [][\A i \in DOMAIN sockets :
             sockets'[i].pings = sockets[i].pings + 1
             => /\ sockets'[i].sent = Append(sockets[i].sent, PongMsg)
                /\ sockets'[i].state = "open"
                /\ \A j \in DOMAIN sockets \ {i} : sockets'[j] = sockets[j]
                /\ UNCHANGED <<onUpdateCalls, history, current, statusMessage>>]_vars
    /\ [](\A i \in DOMAIN sockets : Pongs(i) = sockets[i].pings)

\* C12 witness: an open connection has answered a ping after its subscribe
\* frame, and no subscriber call has been made.
C12_Witness ==
    /\ onUpdateCalls = <<>>
    /\ \E i \in DOMAIN sockets :
          /\ sockets[i].state = "open" /\ sockets[i].pings = 1
          /\ sockets[i].sent = <<SubscribeMsg(sockets[i].closure), PongMsg>>

\* The statuses a failed poll leaves.
PollFailed == statusMessage \in {StHttpFailed, StHttpError}
\* How interval k stands (not active while there is no such interval).
ActiveInterval(k) == k \in DOMAIN intervals /\ intervals[k].active

\* C13: a failed poll (a status other than 2xx, a transport error, a body that
\* cannot be read) never stops the polling loop: the failing response leaves
\* every interval as it was, an interval stops being active only in a dispose
\* (or in the cleanup a new start runs first), and after a failure with nothing
\* in flight the interval issues the next request unless it is cleared first.
C13_FailedPollKeepsPolling ==
    /\ [][\A r \in DOMAIN requests, resp \in {"rejected", "notOk", "badBody"} :
             PollResponse(Lim, r, resp)
             => /\ intervals' = intervals /\ pollingRef' = pollingRef
                /\ UNCHANGED <<onUpdateCalls, history, current>>]_vars
    /\ [][\A k \in DOMAIN intervals :
             (intervals[k].active /\ ~intervals'[k].active)
             => (phase' = "disposed" \/ starts' = starts + 1)]_vars
    /\ \A k \in 1..Lim.starts :
          (ActiveInterval(k) /\ PollFailed /\ requests = <<>>)
             ~> (requests # <<>> \/ ~ActiveInterval(k))

\* C13 witness: a poll has just failed, no update has arrived yet, nothing is
\* in flight and the interval of the running start is still active.
C13_Witness ==
    /\ starts = 1 /\ phase = "started"
    /\ ActiveInterval(pollingRef)
    /\ PollFailed /\ nmsg = 0
    /\ requests = <<>>

\* How socket i stands ("none" while there is no such socket).
StateOf(i) == IF i \in DOMAIN sockets THEN sockets[i].state ELSE "none"
\* No further socket and no further timer fits the bounds of the exploration.
PushExhausted == Len(sockets) + Cardinality(PendingTimers) >= LimPush.sockets

\* C14: an error of a push connection is handled like a close.  The error
\* listener closes the connection and schedules nothing itself; the close that
\* follows schedules the reconnect, as any close does; a connection gets a
\* reconnect scheduled at most once, and only by its close; and a connection
\* that has failed does get its reconnect scheduled (never zero).
C14_ErrorSchedulesOneReconnect ==
    /\ [][\A i \in DOMAIN sockets :
             /\ WsError(i)
                   => /\ sockets'[i].state = "failed"
                      /\ sockets'[i].retry = "none"
                      /\ Len(sockets') = Len(sockets)
             /\ (sockets[i].state = "failed" /\ sockets'[i].state # "failed")
                   => (sockets'[i].state = "closed" /\ sockets'[i].retry = "scheduled")
             /\ (sockets[i].retry # "scheduled" /\ sockets'[i].retry = "scheduled")
                   => /\ sockets[i].retry = "none"
                      /\ sockets[i].state # "closed" /\ sockets'[i].state = "closed"
             /\ sockets[i].retry # "none" => sockets'[i].retry # "none"]_vars
    /\ \A i \in 1..LimPush.sockets :
          (StateOf(i) = "failed") ~> (RetryOf(i) = "scheduled" \/ PushExhausted)

\* C14 witness: the second connection of one start has failed after it was
\* open: its error listener has run, its close has not yet; the first
\* connection's reconnect was made.
C14_Witness ==
    /\ starts = 1 /\ Len(sockets) = 2
    /\ sockets[1].retry = "attempted"
    /\ sockets[2].state = "failed" /\ sockets[2].retry = "none"
    /\ sockets[2].sent # <<>>
    /\ statusMessage = StWsError

C16_SortedUniqueFinite ==
    norm.stage = "normalized" =>
        /\ \A j, k \in DOMAIN norm.data :
              j < k => Rank(norm.data[j].subject) <= Rank(norm.data[k].subject)
        /\ \A j, k \in DOMAIN norm.data :
              norm.data[j].subject = norm.data[k].subject => j = k
        /\ \A k \in DOMAIN norm.data : norm.data[k].value.t = "num"

\* C17: after start is called with a different subject, the history and the
\* current vector contain no vector that was accepted for the previous subject:
\* whatever the cleanup of the previous start empties, the vector that a later
\* step puts into the current vector and at the head of the history is one for
\* the subject of the latest start.
C17_NoVectorOfPreviousSubject ==
    [][Notified => /\ current'.wallet = props'.walletAddress
                   /\ history'[1].wallet = props'.walletAddress]_vars

\* C18: on every push connection that opens, reconnections included, the
\* client sends the subscribe message for the current subject exactly once, and
\* it is the first frame the client sends on that connection.
C18_SubscribeForCurrentSubject ==
    /\ [][\A i \in DOMAIN sockets :
             (sockets[i].state = "connecting" /\ sockets'[i].state = "open")
             => sockets'[i].sent =
                   <<[type |-> "subscribe", topic |-> "mindVector",
                      wallet |-> props.walletAddress]>>]_vars
    /\ [](\A i \in DOMAIN sockets :
             /\ sockets[i].state = "connecting" => sockets[i].sent = <<>>
             /\ \A k \in DOMAIN sockets[i].sent :
                   (sockets[i].sent[k].type = "subscribe") <=> (k = 1))

\* The props with which the effect finds no data source (its else branch), with
\* which it chooses the push channel, and with which it chooses polling.
PushConfigured(cfg) == cfg.websocketUrl # "none" /\ cfg.walletAddress # ""
PollingPrimary(cfg) ==
    ~PushConfigured(cfg) /\ cfg.fetchApiUrl # "none" /\ cfg.walletAddress # ""
NoDataSource(cfg) == ~PushConfigured(cfg) /\ ~PollingPrimary(cfg)

\* C19: when start finds no data source the status becomes the no-data-source
\* error and start opens and issues nothing; from then on, until a fresh start,
\* the status stays, no connection is attempted, no request is issued, no
\* reconnect timer is scheduled and the subscriber is not called.
C19_ConfigErrorTerminal ==
    /\ [][(Started /\ NoDataSource(props'))
             => (statusMessage' = StNoSource /\ OpensNoSocket /\ IssuesNoRequest)]_vars
    /\ [][(starts > 0 /\ NoDataSource(props) /\ ~Started)
             => /\ statusMessage' = StNoSource
                /\ Len(sockets') = Len(sockets)
                /\ Len(requests') <= Len(requests)
                /\ PendingTimers' \subseteq PendingTimers
                /\ onUpdateCalls' = onUpdateCalls]_vars

\* The status of the specification that a status message of the code stands for.
StatusOf(msg) ==
    CASE msg = StInitializing -> "Idle"
      [] msg \in {StConnecting, StConnected} -> "ConnectingPush"
      [] msg = StLive -> "Live"
      [] msg \in {StWsClosed, StWsError, StWsInitError} -> "Degraded"
      [] msg \in {StFetching, StHttpOk, StHttpFailed, StHttpError} -> "PollingOnly"
      [] OTHER -> "Error"

\* A step of a poll cycle: a request is issued by the interval or a response is
\* handled.
PollStep == requests' # requests /\ starts' = starts /\ phase' = phase

\* C20: a successful poll sets the status to PollingOnly when polling is the
\* primary channel, and leaves the status Degraded when the push channel is the
\* one configured and is down; while polling is the primary channel no step of
\* a poll cycle moves the status to Live, ConnectingPush or Degraded.
C20_PollStatus ==
    [][PollStep =>
          /\ (Notified /\ PollingPrimary(props))
                => StatusOf(statusMessage') = "PollingOnly"
          /\ (Notified /\ PushConfigured(props) /\ StatusOf(statusMessage) = "Degraded")
                => StatusOf(statusMessage') = "Degraded"
          /\ PollingPrimary(props)
                => StatusOf(statusMessage') \notin {"Live", "ConnectingPush", "Degraded"}]_vars

\* C21: the subscriber is notified of vectors in the order in which they were
\* accepted, across both channels (the payloads are numbered as the handlers
\* receive them), and the history, newest first, is that order reversed; a
\* push delivery and a poll delivery that are both pending are handled one
\* after the other, each in one step that makes one call and one append.
C21_NotifiedInAcceptanceOrder ==
    /\ [](\A j, k \in DOMAIN onUpdateCalls :
             j < k => onUpdateCalls[j][1].id < onUpdateCalls[k][1].id)
    /\ [](\A j, k \in DOMAIN history : j < k => history[j].id > history[k].id)
    /\ [](history # <<>> => history[1] = onUpdateCalls[Len(onUpdateCalls)][1])
    /\ [][/\ Len(onUpdateCalls') <= Len(onUpdateCalls) + 1
          /\ Notified => /\ onUpdateCalls'[Len(onUpdateCalls')][1].id = nmsg'
                          /\ nmsg' = nmsg + 1
                          /\ Len(history') <= Len(history) + 1]_vars

\* C21 witness: two vectors have been accepted, the later one from the push
\* channel while a poll request is still in flight.
C21_Witness ==
    /\ Len(onUpdateCalls) = 2
    /\ lastCall.src = "push"
    /\ Len(requests) = 1
    /\ history[1].id > history[2].id
    /\ \E i \in DOMAIN sockets : sockets[i].state = "open"

\* C22: under polling the current vector is never replaced by the answer to an
\* earlier request once the answer to a later request has been accepted: no
\* accepted vector answers a request, of the start that is running, that an
\* accepted answer has overtaken.
C22_LastValueWins == ~(lastCall.late /\ ~lastCall.stale)

====
